---- MODULE Spec2Model ----
(***************************************************************************)
(* miriad-python: the binding layer between the Python host and the MIRIAD *)
(* native library (mirtask/_miriad_cmodule.c, mirtask/_uviomodule.c and    *)
(* mirtask/mirtasksupport.c).                                              *)
(*                                                                         *)
(* A wrapper is modelled as a function of its arguments and of the         *)
(* responses the native library has returned to it so far; the function    *)
(* yields the wrapper's next step: the next native call (where the wrapper *)
(* is suspended until the library answers) or its return.  The state       *)
(* machine holds what lies outside a wrapper's locals: the three           *)
(* file-scope variables of mirtasksupport.c, the host's pending exception, *)
(* and the C stack of wrapper invocations that are inside a native call.   *)
(* The native library and the host's warning machinery are the             *)
(* environment: the library answers a call with any response, or reports a *)
(* bug through the installed handler; the host code run by a warning may   *)
(* call a wrapper again.                                                   *)
(*                                                                         *)
(* Modelled are the wrappers of the hio and headio layers, uvscan, uvread, *)
(* uvwrite, uvchkshadow in both builds, keyini, mirwcs_celset, the typed   *)
(* first-value readers of _uvio and the wrappers that take ndarray         *)
(* arguments; the remaining wrappers follow the shape of py_hflush (parse, *)
(* MTS_CHECK_BUG, one native call, build the result).                      *)
(***************************************************************************)
EXTENDS Integers, Sequences, FiniteSets, TLC

\* ---------------------------------------------------------------- bounds
\* wrapper invocations in one behaviour
MaxCalls == 2
\* wrapper invocations nested through the warning hook
MaxDepth == 2
\* bug reports the native library makes during one invocation
MaxBugs == 2

\* ------------------------------------------------------ program constants
\* size of bug_msg
BUFSZ == 512
NPY_SIZEOF_INT == 4
NPY_SIZEOF_FLOAT == 4
NPY_SIZEOF_DOUBLE == 8

\* ------------------------------------------------------------ host values
\* A pending exception: its type, the argument name or class it is about,
\* its message text and its number (errno for IOError, the message length for
\* MiriadError).
Exc(type, who, text, num) == [type |-> type, who |-> who, text |-> text, num |-> num]
NoExc == Exc("none", "", "", 0)

\* A host object handed back by a wrapper; NULL is the error indicator.
Res(kind, val) == [kind |-> kind, val |-> val]
NULL == Res("NULL", 0)
PyNone == Res("None", 0)

\* PyArg_ParseTuple failing sets TypeError.
ArgError == Exc("TypeError", "args", "bad arguments", 0)

\* An ndarray argument: its dtype, whether it is C-contiguous, its element count.
Arr(dtype, contiguous, size) == [dtype |-> dtype, contiguous |-> contiguous, size |-> size]

PyArray_ISINTEGER(a) == a.dtype \in {"int8", "uint8", "int16", "uint16", "int32", "int64"}
PyArray_ISFLOAT(a) == a.dtype \in {"float32", "float64"}
PyArray_ISCOMPLEX(a) == a.dtype \in {"complex64", "complex128"}
PyArray_ISCONTIGUOUS(a) == a.contiguous
PyArray_SIZE(a) == a.size
PyArray_ITEMSIZE(a) ==
    CASE a.dtype \in {"bool", "int8", "uint8"} -> 1
      [] a.dtype \in {"int16", "uint16"} -> 2
      [] a.dtype \in {"int32", "float32"} -> 4
      [] a.dtype \in {"int64", "float64", "complex64"} -> 8
      [] OTHER -> 16

\* The arguments of one invocation: whether PyArg_ParseTuple accepts them, the
\* ndarrays in positional order, the integer n (count, length or nbytes) and
\* the caller's default value.
Args(ok, arrs, n, dflt) ==
    [ok |-> ok, arrs |-> arrs, n |-> n, dflt |-> dflt, list |-> <<>>]

\* An element of a list argument: a str object with its text, or an object of
\* another type.  The buffer of the str at index i of the list is at address i.
PyStr(txt) == [isstr |-> TRUE, txt |-> txt]
PyOther == [isstr |-> FALSE, txt |-> ""]

\* The arguments of a wrapper that takes one list ("O!", &PyList_Type).
ListArgs(ok, list) == [Args(ok, <<>>, 0, 0) EXCEPT !.list = list]

\* A char buffer: its address and its text.
Buf(addr, txt) == [addr |-> addr, txt |-> txt]

\* ----------------------------------------------------------- wrapper steps
\* The next step of a wrapper: a call into the native library (fn with its
\* type code t and two integer parameters), or the return of a result.  exc
\* is the exception the wrapper's own code set in the segment that led to the
\* step; armed says whether MTS_CHECK_BUG has been executed by then.
\* A native call made with no MTS_CHECK_BUG before it.
NativeUnarmed(fn, t, a1, a2, exc) ==
    [op |-> "native", fn |-> fn, t |-> t, a1 |-> a1, a2 |-> a2, argv |-> <<>>,
     result |-> NULL, exc |-> exc, armed |-> FALSE]

Native(fn, t, a1, a2, exc) ==
    [op |-> "native", fn |-> fn, t |-> t, a1 |-> a1, a2 |-> a2, argv |-> <<>>,
     result |-> NULL, exc |-> exc, armed |-> TRUE]
Return(result, exc, armed) ==
    [op |-> "return", fn |-> "", t |-> "", a1 |-> 0, a2 |-> 0, argv |-> <<>>,
     result |-> result, exc |-> exc, armed |-> armed]

\* A native call fn (argc, argv) with an array of char buffers.
NativeArgv(fn, argc, argv) == [Native(fn, "", argc, 0, NoExc) EXCEPT !.argv = argv]

\* The wrapper's own code has undefined behaviour, after MTS_CHECK_BUG and with
\* exc set by the segment that led to it.
Undefined(exc) == [Return(NULL, exc, TRUE) EXCEPT !.op = "undefined"]

\* A response of the native library to one call.
Resp(iostat, val, type, n) == [iostat |-> iostat, val |-> val, type |-> type, n |-> n]

\* -------------------------------------------------------------- check_iostat
\* A check_iostat that raises for ENOENT alone.
check_iostat_enoent_only(iostat) ==
    IF iostat = 2 THEN Exc("IOError", "errno", "strerror", iostat) ELSE NoExc

\* check_iostat: 0 is success; any other status becomes errno and
\* PyErr_SetFromErrno (PyExc_IOError) sets the exception.  NoExc stands for
\* the return value 0.
check_iostat(iostat) ==
    IF iostat = 0 THEN NoExc ELSE Exc("IOError", "errno", "strerror", iostat)

\* ------------------------------------------ array checks of _miriad_cmodule.c
\* A check_int_array that tests contiguity before kind and item size.
check_int_array_contiguity_first(array, argname) ==
    IF ~PyArray_ISCONTIGUOUS(array)
    THEN Exc("ValueError", argname, "must be a contiguous ndarray", 0)
    ELSE IF ~PyArray_ISINTEGER(array)
    THEN Exc("ValueError", argname, "must be an integer ndarray", 0)
    ELSE IF PyArray_ITEMSIZE(array) # NPY_SIZEOF_INT
    THEN Exc("ValueError", argname, "must be a plain-int-sized ndarray", 0)
    ELSE NoExc

check_int_array(array, argname) ==
    IF ~PyArray_ISINTEGER(array)
    THEN Exc("ValueError", argname, "must be an integer ndarray", 0)
    ELSE IF PyArray_ITEMSIZE(array) # NPY_SIZEOF_INT
    THEN Exc("ValueError", argname, "must be a plain-int-sized ndarray", 0)
    ELSE IF ~PyArray_ISCONTIGUOUS(array)
    THEN Exc("ValueError", argname, "must be a contiguous ndarray", 0)
    ELSE NoExc

check_float_array(array, argname) ==
    IF ~PyArray_ISFLOAT(array)
    THEN Exc("ValueError", argname, "must be an float ndarray", 0)
    ELSE IF PyArray_ITEMSIZE(array) # NPY_SIZEOF_FLOAT
    THEN Exc("ValueError", argname, "must be a plain-float-sized ndarray", 0)
    ELSE IF ~PyArray_ISCONTIGUOUS(array)
    THEN Exc("ValueError", argname, "must be a contiguous ndarray", 0)
    ELSE NoExc

check_double_array(array, argname) ==
    IF ~PyArray_ISFLOAT(array)
    THEN Exc("ValueError", argname, "must be an float ndarray", 0)
    ELSE IF PyArray_ITEMSIZE(array) # NPY_SIZEOF_DOUBLE
    THEN Exc("ValueError", argname, "must be a double-sized ndarray", 0)
    ELSE IF ~PyArray_ISCONTIGUOUS(array)
    THEN Exc("ValueError", argname, "must be a contiguous ndarray", 0)
    ELSE NoExc

check_complexf_array(array, argname) ==
    IF ~PyArray_ISCOMPLEX(array)
    THEN Exc("ValueError", argname, "must be a complex ndarray", 0)
    ELSE IF PyArray_ITEMSIZE(array) # 2 * NPY_SIZEOF_FLOAT
    THEN Exc("ValueError", argname, "must be a plain-complex-sized ndarray", 0)
    ELSE IF ~PyArray_ISCONTIGUOUS(array)
    THEN Exc("ValueError", argname, "must be a contiguous ndarray", 0)
    ELSE NoExc

\* The check a wrapper applies to one ndarray argument, by the name of the
\* check function it calls.
check_array(chk, array, argname) ==
    CASE chk = "int" -> check_int_array(array, argname)
      [] chk = "float" -> check_float_array(array, argname)
      [] chk = "double" -> check_double_array(array, argname)
      [] chk = "complexf" -> check_complexf_array(array, argname)

\* The inline checks of _uviomodule.c: element kind, item size, contiguity, in
\* this order, each raising TypeError; kindtext and sizetext are the wrapper's
\* own message texts.
uvio_check_array(array, argname, kind, itemsize, kindtext, sizetext) ==
    LET kindok == CASE kind = "int" -> PyArray_ISINTEGER(array)
                    [] kind = "float" -> PyArray_ISFLOAT(array)
                    [] kind = "complex" -> PyArray_ISCOMPLEX(array)
    IN  IF ~kindok THEN Exc("TypeError", argname, kindtext, 0)
        ELSE IF PyArray_ITEMSIZE(array) # itemsize THEN Exc("TypeError", argname, sizetext, 0)
        ELSE IF ~PyArray_ISCONTIGUOUS(array)
        THEN Exc("TypeError", argname, "must be contiguous ndarray", 0)
        ELSE NoExc

\* The first exception of a sequence of check results, in order; NoExc when
\* every check passed (each failing check returns from the wrapper at once).
FirstExc(excs) ==
    LET bad == {i \in 1..Len(excs) : excs[i] # NoExc}
    IN  IF bad = {} THEN NoExc
        ELSE excs[CHOOSE i \in bad : \A j \in bad : i <= j]

\* ---------------------------------------------------- hio (_miriad_cmodule.c)
\* Every wrapper below starts with PyArg_ParseTuple (a.ok) and executes
\* MTS_CHECK_BUG before its first native call; rs holds the responses the
\* native library has returned to this invocation so far.

py_hopen(a, rs) ==
    IF ~a.ok THEN Return(NULL, ArgError, FALSE)
    ELSE IF rs = <<>> THEN Native("hopen_c", "", 0, 0, NoExc)
    ELSE IF check_iostat(rs[1].iostat) # NoExc
    THEN Return(NULL, check_iostat(rs[1].iostat), TRUE)
    ELSE Return(Res("int", rs[1].val), NoExc, TRUE)

py_hflush(a, rs) ==
    IF ~a.ok THEN Return(NULL, ArgError, FALSE)
    ELSE IF rs = <<>> THEN Native("hflush_c", "", 0, 0, NoExc)
    ELSE IF check_iostat(rs[1].iostat) # NoExc
    THEN Return(NULL, check_iostat(rs[1].iostat), TRUE)
    ELSE Return(PyNone, NoExc, TRUE)

py_hdelete(a, rs) ==
    IF ~a.ok THEN Return(NULL, ArgError, FALSE)
    ELSE IF rs = <<>> THEN Native("hdelete_c", "", 0, 0, NoExc)
    ELSE IF check_iostat(rs[1].iostat) # NoExc
    THEN Return(NULL, check_iostat(rs[1].iostat), TRUE)
    ELSE Return(PyNone, NoExc, TRUE)

py_haccess(a, rs) ==
    IF ~a.ok THEN Return(NULL, ArgError, FALSE)
    ELSE IF rs = <<>> THEN Native("haccess_c", "", 0, 0, NoExc)
    ELSE IF check_iostat(rs[1].iostat) # NoExc
    THEN Return(NULL, check_iostat(rs[1].iostat), TRUE)
    ELSE Return(Res("int", rs[1].val), NoExc, TRUE)

py_hdaccess(a, rs) ==
    IF ~a.ok THEN Return(NULL, ArgError, FALSE)
    ELSE IF rs = <<>> THEN Native("hdaccess_c", "", 0, 0, NoExc)
    ELSE IF check_iostat(rs[1].iostat) # NoExc
    THEN Return(NULL, check_iostat(rs[1].iostat), TRUE)
    ELSE Return(PyNone, NoExc, TRUE)

\* The switch on PyArray_TYPE (buf) in py_hio_generic; "" is its default case.
hio_mirtype(dtype) ==
    CASE dtype \in {"int8", "uint8"} -> "H_BYTE"
      [] dtype = "int16" -> "H_INT2"
      [] dtype = "int32" -> "H_INT"
      [] dtype = "int64" -> "H_INT8"
      [] dtype = "float32" -> "H_REAL"
      [] dtype = "float64" -> "H_DBLE"
      [] dtype = "complex64" -> "H_CMPLX"
      [] OTHER -> ""

\* py_hio_generic (iswrite, ihandle, buf, offset, nbytes): a.dflt is iswrite,
\* a.n is nbytes.  The contiguity test comes first; the recovery point is
\* armed before the switch on the buffer's type.
py_hio_generic(a, rs) ==
    IF ~a.ok THEN Return(NULL, ArgError, FALSE)
    ELSE IF ~PyArray_ISCONTIGUOUS(a.arrs[1])
    THEN Return(NULL, Exc("ValueError", "buf", "must be a contiguous ndarray", 0), FALSE)
    ELSE IF hio_mirtype(a.arrs[1].dtype) = ""
    THEN Return(NULL, Exc("ValueError", "buf", "unhandled buffer type", 0), TRUE)
    ELSE IF rs = <<>>
    THEN Native("hio_c", hio_mirtype(a.arrs[1].dtype), a.dflt, a.n, NoExc)
    ELSE IF check_iostat(rs[1].iostat) # NoExc
    THEN Return(NULL, check_iostat(rs[1].iostat), TRUE)
    ELSE Return(PyNone, NoExc, TRUE)

\* ------------------------------------------------- headio (_miriad_cmodule.c)
\* An rdhd_scalar without the integer*8 branch.
rdhd_scalar_no_int8(type) ==
    CASE type = "real" -> [t |-> "H_REAL", off |-> 4, len |-> 4]
      [] type = "double" -> [t |-> "H_DBLE", off |-> 8, len |-> 8]
      [] type = "integer*2" -> [t |-> "H_INT2", off |-> 4, len |-> 2]
      [] type = "integer" -> [t |-> "H_INT", off |-> 4, len |-> 4]
      [] type = "complex" -> [t |-> "H_CMPLX", off |-> 8, len |-> 8]
      [] OTHER -> [t |-> "", off |-> 0, len |-> 0]

\* The scalar types py_rdhd_generic reads: the hio type code, the offset and
\* the length it passes to hio_c.
rdhd_scalar(type) ==
    CASE type = "real" -> [t |-> "H_REAL", off |-> 4, len |-> 4]
      [] type = "double" -> [t |-> "H_DBLE", off |-> 8, len |-> 8]
      [] type = "integer*2" -> [t |-> "H_INT2", off |-> 4, len |-> 2]
      [] type = "integer" -> [t |-> "H_INT", off |-> 4, len |-> 4]
      [] type = "integer*8" -> [t |-> "H_INT8", off |-> 8, len |-> 8]
      [] type = "complex" -> [t |-> "H_CMPLX", off |-> 8, len |-> 8]
      [] OTHER -> [t |-> "", off |-> 0, len |-> 0]

\* py_rdhd_generic: rs[1] answers hdprobe_c, rs[2] haccess_c; for a scalar
\* type rs[3] answers hio_c and rs[4] hdaccess_c; for any other type name no
\* hio_c call is made, ValueError is set, and rs[3] answers hdaccess_c.
py_rdhd_generic(a, rs) ==
    IF ~a.ok THEN Return(NULL, ArgError, FALSE)
    ELSE IF rs = <<>> THEN Native("hdprobe_c", "", BUFSZ, 0, NoExc)
    ELSE IF rs[1].type = "nonexistent" THEN Return(PyNone, NoExc, TRUE)
    ELSE IF rs[1].type = "unknown"
    THEN Return(NULL, Exc("ValueError", "item", "is not of a well-defined type", 0), TRUE)
    ELSE IF rs[1].n = 0
    THEN Return(NULL, Exc("ValueError", "item", "size couldn't be determined", 0), TRUE)
    ELSE IF rs[1].type = "binary"
    THEN Return(NULL, Exc("ValueError", "item", "is of a mixed binary type", 0), TRUE)
    ELSE IF rs[1].type = "text"
    THEN Return(NULL, Exc("ValueError", "item", "is of an extended textual type", 0), TRUE)
    ELSE IF rs[1].type = "character" THEN Return(Res("str", rs[1].val), NoExc, TRUE)
    ELSE IF rs[1].n # 1
    THEN Return(NULL, Exc("ValueError", "item", "size is not one", rs[1].n), TRUE)
    ELSE IF Len(rs) = 1 THEN Native("haccess_c", "read", 0, 0, NoExc)
    ELSE IF check_iostat(rs[2].iostat) # NoExc
    THEN Return(NULL, check_iostat(rs[2].iostat), TRUE)
    ELSE IF rdhd_scalar(rs[1].type).t # ""
    THEN IF Len(rs) = 2
         THEN Native("hio_c", rdhd_scalar(rs[1].type).t, rdhd_scalar(rs[1].type).off,
                     rdhd_scalar(rs[1].type).len, NoExc)
         ELSE IF check_iostat(rs[3].iostat) # NoExc
         THEN Return(NULL, check_iostat(rs[3].iostat), TRUE)
         ELSE IF Len(rs) = 3 THEN Native("hdaccess_c", "", 0, 0, NoExc)
         ELSE IF check_iostat(rs[4].iostat) # NoExc
         THEN Return(NULL, check_iostat(rs[4].iostat), TRUE)
         ELSE Return(Res(rs[1].type, rs[3].val), NoExc, TRUE)
    ELSE IF Len(rs) = 2
         THEN Native("hdaccess_c", "", 0, 0, Exc("ValueError", "item", "unexpected type", 0))
         ELSE IF check_iostat(rs[3].iostat) # NoExc
         THEN Return(NULL, check_iostat(rs[3].iostat), TRUE)
         ELSE Return(NULL, NoExc, TRUE)

\* --------------------------------------------------- uvio (_miriad_cmodule.c)
\* A py_uvscan that passes every status, -1 included, to CHECK_IOSTAT.
py_uvscan_raise_eof(a, rs) ==
    IF ~a.ok THEN Return(NULL, ArgError, FALSE)
    ELSE IF rs = <<>> THEN Native("uvscan_c", "", 0, 0, NoExc)
    ELSE IF check_iostat(rs[1].val) # NoExc
    THEN Return(NULL, check_iostat(rs[1].val), TRUE)
    ELSE Return(Res("int", rs[1].val), NoExc, TRUE)

\* py_uvscan: the status -1 (end of file) skips CHECK_IOSTAT.
py_uvscan(a, rs) ==
    IF ~a.ok THEN Return(NULL, ArgError, FALSE)
    ELSE IF rs = <<>> THEN Native("uvscan_c", "", 0, 0, NoExc)
    ELSE IF rs[1].val # -1 /\ check_iostat(rs[1].val) # NoExc
    THEN Return(NULL, check_iostat(rs[1].val), TRUE)
    ELSE Return(Res("int", rs[1].val), NoExc, TRUE)

\* A py_uvread without the size check of the data array.
py_uvread_no_data_size(a, rs) ==
    LET preamble == a.arrs[1]
        data == a.arrs[2]
        flags == a.arrs[3]
        typeexc == FirstExc(<<check_double_array(preamble, "preamble"),
                              check_complexf_array(data, "data"),
                              check_int_array(flags, "flags")>>)
    IN  IF ~a.ok THEN Return(NULL, ArgError, FALSE)
        ELSE IF typeexc # NoExc THEN Return(NULL, typeexc, FALSE)
        ELSE IF PyArray_SIZE(preamble) # 4 /\ PyArray_SIZE(preamble) # 5
        THEN Return(NULL, Exc("ValueError", "preamble", "array must have 4 or 5 elements", 0),
                    FALSE)
        ELSE IF PyArray_SIZE(flags) < a.n
        THEN Return(NULL, Exc("ValueError", "flags", "array must have at least n elements", a.n),
                    FALSE)
        ELSE IF rs = <<>> THEN Native("uvread_c", "", a.n, 0, NoExc)
        ELSE Return(Res("int", rs[1].val), NoExc, TRUE)

\* py_uvread (tno, preamble, data, flags, n): the three type checks, then the
\* three size checks, then MTS_CHECK_BUG and uvread_c.
py_uvread(a, rs) ==
    LET preamble == a.arrs[1]
        data == a.arrs[2]
        flags == a.arrs[3]
        typeexc == FirstExc(<<check_double_array(preamble, "preamble"),
                              check_complexf_array(data, "data"),
                              check_int_array(flags, "flags")>>)
    IN  IF ~a.ok THEN Return(NULL, ArgError, FALSE)
        ELSE IF typeexc # NoExc THEN Return(NULL, typeexc, FALSE)
        ELSE IF PyArray_SIZE(preamble) # 4 /\ PyArray_SIZE(preamble) # 5
        THEN Return(NULL, Exc("ValueError", "preamble", "array must have 4 or 5 elements", 0),
                    FALSE)
        ELSE IF PyArray_SIZE(flags) < a.n
        THEN Return(NULL, Exc("ValueError", "flags", "array must have at least n elements", a.n),
                    FALSE)
        ELSE IF PyArray_SIZE(data) < a.n
        THEN Return(NULL, Exc("ValueError", "data", "array must have at least n elements", a.n),
                    FALSE)
        ELSE IF rs = <<>> THEN Native("uvread_c", "", a.n, 0, NoExc)
        ELSE Return(Res("int", rs[1].val), NoExc, TRUE)

py_uvwrite(a, rs) ==
    LET preamble == a.arrs[1]
        data == a.arrs[2]
        flags == a.arrs[3]
        typeexc == FirstExc(<<check_double_array(preamble, "preamble"),
                              check_complexf_array(data, "data"),
                              check_int_array(flags, "flags")>>)
    IN  IF ~a.ok THEN Return(NULL, ArgError, FALSE)
        ELSE IF typeexc # NoExc THEN Return(NULL, typeexc, FALSE)
        ELSE IF PyArray_SIZE(preamble) # 4 /\ PyArray_SIZE(preamble) # 5
        THEN Return(NULL, Exc("ValueError", "preamble", "array must have 4 or 5 elements", 0),
                    FALSE)
        ELSE IF PyArray_SIZE(flags) < a.n
        THEN Return(NULL, Exc("ValueError", "flags", "array must have at least n elements", a.n),
                    FALSE)
        ELSE IF PyArray_SIZE(data) < a.n
        THEN Return(NULL, Exc("ValueError", "data", "array must have at least n elements", a.n),
                    FALSE)
        ELSE IF rs = <<>> THEN Native("uvwrite_c", "", a.n, 0, NoExc)
        ELSE Return(PyNone, NoExc, TRUE)

\* ----------------- wrappers of _miriad_cmodule.c that only check their arrays
\* Each of these wrappers parses its arguments, applies check_*_array to its
\* ndarray arguments in positional order, executes MTS_CHECK_BUG, makes one
\* native call and builds its result.  A row gives the argument names with the
\* check applied to each, the native function, and the kind of the result.
ArrayWrapperNames ==
    {"uvflgwr", "uvinfo", "uvputvri", "uvputvrr", "uvputvrd", "xyopen", "xyread",
     "xywrite", "xyflgrd", "xyflgwr", "xysetpl", "mkread", "mkwrite", "xyzopen",
     "xyzsetup", "xyzs2c", "xyzc2s", "xyzread", "xyzprfrd", "xyzwrite", "xyzprfwr"}

ArrayWrapperRow(w) ==
    CASE w = "uvflgwr" -> [checks |-> << <<"flags", "int">> >>, fn |-> "uvflgwr_c", res |-> "None"]
      [] w = "uvinfo" -> [checks |-> << <<"data", "double">> >>, fn |-> "uvinfo_c", res |-> "None"]
      [] w = "uvputvri" -> [checks |-> << <<"value", "int">> >>, fn |-> "uvputvri_c", res |-> "None"]
      [] w = "uvputvrr" -> [checks |-> << <<"value", "float">> >>, fn |-> "uvputvrr_c", res |-> "None"]
      [] w = "uvputvrd" -> [checks |-> << <<"value", "double">> >>, fn |-> "uvputvrd_c", res |-> "None"]
      [] w = "xyopen" -> [checks |-> << <<"axes", "int">> >>, fn |-> "xyopen_c", res |-> "int"]
      [] w = "xyread" -> [checks |-> << <<"data", "float">> >>, fn |-> "xyread_c", res |-> "None"]
      [] w = "xywrite" -> [checks |-> << <<"data", "float">> >>, fn |-> "xywrite_c", res |-> "None"]
      [] w = "xyflgrd" -> [checks |-> << <<"flags", "int">> >>, fn |-> "xyflgrd_c", res |-> "None"]
      [] w = "xyflgwr" -> [checks |-> << <<"flags", "int">> >>, fn |-> "xyflgwr_c", res |-> "None"]
      [] w = "xysetpl" -> [checks |-> << <<"axes", "int">> >>, fn |-> "xysetpl_c", res |-> "None"]
      [] w = "mkread" -> [checks |-> << <<"flags", "int">> >>, fn |-> "mkread_c", res |-> "int"]
      [] w = "mkwrite" -> [checks |-> << <<"flags", "int">> >>, fn |-> "mkwrite_c", res |-> "None"]
      [] w = "xyzopen" -> [checks |-> << <<"axlen", "int">> >>, fn |-> "xyzopen_c", res |-> "int"]
      [] w = "xyzsetup" -> [checks |-> << <<"blc", "int">>, <<"trc", "int">> >>,
                            fn |-> "xyzsetup_c", res |-> "arrays"]
      [] w = "xyzs2c" -> [checks |-> << <<"coords", "int">> >>, fn |-> "xyzs2c_c", res |-> "None"]
      [] w = "xyzc2s" -> [checks |-> << <<"coords", "int">> >>, fn |-> "xyzc2s_c", res |-> "int"]
      [] w = "xyzread" -> [checks |-> << <<"coords", "int">>, <<"data", "float">>, <<"mask", "int">> >>,
                           fn |-> "xyzread_c", res |-> "int"]
      [] w = "xyzprfrd" -> [checks |-> << <<"data", "float">>, <<"mask", "int">> >>,
                            fn |-> "xyzprfrd_c", res |-> "int"]
      [] w = "xyzwrite" -> [checks |-> << <<"coords", "int">>, <<"data", "float">>, <<"mask", "int">> >>,
                            fn |-> "xyzwrite_c", res |-> "None"]
      [] w = "xyzprfwr" -> [checks |-> << <<"data", "float">>, <<"mask", "int">> >>,
                            fn |-> "xyzprfwr_c", res |-> "None"]

py_array_wrapper(w, a, rs) ==
    LET row == ArrayWrapperRow(w)
        excs == [i \in 1..Len(row.checks) |->
                    check_array(row.checks[i][2], a.arrs[i], row.checks[i][1])]
    IN  IF ~a.ok THEN Return(NULL, ArgError, FALSE)
        ELSE IF FirstExc(excs) # NoExc THEN Return(NULL, FirstExc(excs), FALSE)
        ELSE IF rs = <<>> THEN Native(row.fn, "", a.n, 0, NoExc)
        ELSE Return(IF row.res = "None" THEN PyNone ELSE Res(row.res, rs[1].val), NoExc, TRUE)

\* ------------------------------------------------------------ _uviomodule.c
\* py_hopen, py_hflush, py_hdelete, py_haccess, py_hdaccess and py_uvscan of
\* _uviomodule.c are the same code as in _miriad_cmodule.c.

py_hreada(a, rs) ==
    IF ~a.ok THEN Return(NULL, ArgError, FALSE)
    ELSE IF rs = <<>> THEN Native("hreada_c", "", BUFSZ - 1, 0, NoExc)
    ELSE IF check_iostat(rs[1].iostat) # NoExc
    THEN Return(NULL, check_iostat(rs[1].iostat), TRUE)
    ELSE Return(Res("str", rs[1].val), NoExc, TRUE)

py_hwritea(a, rs) ==
    IF ~a.ok THEN Return(NULL, ArgError, FALSE)
    ELSE IF rs = <<>> THEN Native("hwritea_c", "", a.n, 0, NoExc)
    ELSE IF check_iostat(rs[1].iostat) # NoExc
    THEN Return(NULL, check_iostat(rs[1].iostat), TRUE)
    ELSE Return(PyNone, NoExc, TRUE)

\* hio_generic (self, args, dowrite, type, dtype, objsize) with args
\* (item, buf, offset, length): a.n is length.
hio_generic(a, rs, dowrite, type, dtype, objsize) ==
    LET buf == a.arrs[1]
        typeok == CASE dtype = "HD_INTEGER" -> PyArray_ISINTEGER(buf)
                    [] dtype = "HD_FLOAT" -> PyArray_ISFLOAT(buf)
                    [] dtype = "HD_COMPLEX" -> PyArray_ISCOMPLEX(buf)
    IN  IF ~a.ok THEN Return(NULL, ArgError, FALSE)
        ELSE IF ~typeok
        THEN Return(NULL, Exc("TypeError", "buf", "ndarray is of wrong type", 0), FALSE)
        ELSE IF PyArray_ITEMSIZE(buf) # objsize
        THEN Return(NULL, Exc("TypeError", "buf", "ndarray has bad itemsize", 0), FALSE)
        ELSE IF ~PyArray_ISCONTIGUOUS(buf)
        THEN Return(NULL, Exc("TypeError", "buf", "must be contiguous ndarray", 0), FALSE)
        ELSE IF rs = <<>> THEN Native("hio_c", type, dowrite, a.n * objsize, NoExc)
        ELSE IF check_iostat(rs[1].iostat) # NoExc
        THEN Return(NULL, check_iostat(rs[1].iostat), TRUE)
        ELSE Return(PyNone, NoExc, TRUE)

\* MAKE_HIO (ident, mtype, dtype, size): the rows that define py_hread<ident>
\* and py_hwrite<ident>.
HioIdents == {"b", "i", "j", "l", "r", "d", "c"}

MAKE_HIO(ident) ==
    CASE ident = "b" -> [mtype |-> "H_BYTE", dtype |-> "HD_INTEGER", size |-> 1]
      [] ident = "i" -> [mtype |-> "H_INT", dtype |-> "HD_INTEGER", size |-> 4]
      [] ident = "j" -> [mtype |-> "H_INT2", dtype |-> "HD_INTEGER", size |-> 2]
      [] ident = "l" -> [mtype |-> "H_INT8", dtype |-> "HD_INTEGER", size |-> 8]
      [] ident = "r" -> [mtype |-> "H_REAL", dtype |-> "HD_FLOAT", size |-> 4]
      [] ident = "d" -> [mtype |-> "H_DBLE", dtype |-> "HD_FLOAT", size |-> 8]
      [] ident = "c" -> [mtype |-> "H_CMPLX", dtype |-> "HD_COMPLEX", size |-> 8]

py_hread(ident, a, rs) ==
    hio_generic(a, rs, 0, MAKE_HIO(ident).mtype, MAKE_HIO(ident).dtype, MAKE_HIO(ident).size)

py_hwrite(ident, a, rs) ==
    hio_generic(a, rs, 1, MAKE_HIO(ident).mtype, MAKE_HIO(ident).dtype, MAKE_HIO(ident).size)

\* The typed first-value readers.  A value crosses the boundary in the C type
\* of the pointer the wrapper passes.  py_uvrdvrc hands its float[2] buffers
\* to the double reader, which reads the default and stores the value as one
\* double in the same eight bytes; the wrapper then reads them back as two
\* floats.  A value v seen through the other type is another value.
FloatPairBitsAsDouble(v) == v + 1000
DoubleBitsAsFloatPair(v) == v + 2000

py_uvrdvra(a, rs) ==
    IF ~a.ok THEN Return(NULL, ArgError, FALSE)
    ELSE IF rs = <<>> THEN Native("uvrdvra_c", "", a.dflt, BUFSZ, NoExc)
    ELSE Return(Res("str", rs[1].val), NoExc, TRUE)

py_uvrdvri(a, rs) ==
    IF ~a.ok THEN Return(NULL, ArgError, FALSE)
    ELSE IF rs = <<>> THEN Native("uvrdvri_c", "", a.dflt, 0, NoExc)
    ELSE Return(Res("int", rs[1].val), NoExc, TRUE)

py_uvrdvrr(a, rs) ==
    IF ~a.ok THEN Return(NULL, ArgError, FALSE)
    ELSE IF rs = <<>> THEN Native("uvrdvrr_c", "", a.dflt, 0, NoExc)
    ELSE Return(Res("float", rs[1].val), NoExc, TRUE)

py_uvrdvrd(a, rs) ==
    IF ~a.ok THEN Return(NULL, ArgError, FALSE)
    ELSE IF rs = <<>> THEN Native("uvrdvrd_c", "", a.dflt, 0, NoExc)
    ELSE Return(Res("double", rs[1].val), NoExc, TRUE)

py_uvrdvrc(a, rs) ==
    IF ~a.ok THEN Return(NULL, ArgError, FALSE)
    ELSE IF rs = <<>> THEN Native("uvrdvrd_c", "", FloatPairBitsAsDouble(a.dflt), 0, NoExc)
    ELSE Return(Res("complex", DoubleBitsAsFloatPair(rs[1].val)), NoExc, TRUE)

\* py_uvread and py_uvwrite of _uviomodule.c: the type checks are written
\* inline and raise TypeError; the size checks are those of _miriad_cmodule.c.
uvio_py_uvread(a, rs) ==
    LET preamble == a.arrs[1]
        data == a.arrs[2]
        flags == a.arrs[3]
        typeexc == FirstExc(<<
            uvio_check_array(preamble, "preamble", "float", NPY_SIZEOF_DOUBLE,
                             "must be float ndarray", "must be double-sized ndarray"),
            uvio_check_array(data, "data", "complex", 2 * NPY_SIZEOF_FLOAT,
                             "must be complex ndarray", "must be plain-complex-sized ndarray"),
            uvio_check_array(flags, "flags", "int", NPY_SIZEOF_INT,
                             "must be integer ndarray", "must be plain-int-sized ndarray")>>)
    IN  IF ~a.ok THEN Return(NULL, ArgError, FALSE)
        ELSE IF typeexc # NoExc THEN Return(NULL, typeexc, FALSE)
        ELSE IF PyArray_SIZE(preamble) # 4 /\ PyArray_SIZE(preamble) # 5
        THEN Return(NULL, Exc("ValueError", "preamble", "array must have 4 or 5 elements", 0),
                    FALSE)
        ELSE IF PyArray_SIZE(flags) < a.n
        THEN Return(NULL, Exc("ValueError", "flags", "array must have at least n elements", a.n),
                    FALSE)
        ELSE IF PyArray_SIZE(data) < a.n
        THEN Return(NULL, Exc("ValueError", "data", "array must have at least n elements", a.n),
                    FALSE)
        ELSE IF rs = <<>> THEN Native("uvread_c", "", a.n, 0, NoExc)
        ELSE Return(Res("int", rs[1].val), NoExc, TRUE)

uvio_py_uvwrite(a, rs) ==
    LET preamble == a.arrs[1]
        data == a.arrs[2]
        flags == a.arrs[3]
        typeexc == FirstExc(<<
            uvio_check_array(preamble, "preamble", "float", NPY_SIZEOF_DOUBLE,
                             "must be float ndarray", "must be double-sized ndarray"),
            uvio_check_array(data, "data", "complex", 2 * NPY_SIZEOF_FLOAT,
                             "must be complex ndarray", "must be plain-complex-sized ndarray"),
            uvio_check_array(flags, "flags", "int", NPY_SIZEOF_INT,
                             "must be integer ndarray", "must be plain-int-sized ndarray")>>)
    IN  IF ~a.ok THEN Return(NULL, ArgError, FALSE)
        ELSE IF typeexc # NoExc THEN Return(NULL, typeexc, FALSE)
        ELSE IF PyArray_SIZE(preamble) # 4 /\ PyArray_SIZE(preamble) # 5
        THEN Return(NULL, Exc("ValueError", "preamble", "array must have 4 or 5 elements", 0),
                    FALSE)
        ELSE IF PyArray_SIZE(flags) < a.n
        THEN Return(NULL, Exc("ValueError", "flags", "array must have at least n elements", a.n),
                    FALSE)
        ELSE IF PyArray_SIZE(data) < a.n
        THEN Return(NULL, Exc("ValueError", "data", "array must have at least n elements", a.n),
                    FALSE)
        ELSE IF rs = <<>> THEN Native("uvwrite_c", "", a.n, 0, NoExc)
        ELSE Return(PyNone, NoExc, TRUE)

\* The wrappers of _uviomodule.c that take one ndarray and check it inline:
\* the argument name, the element kind and item size demanded, the two
\* message texts, the native function and the kind of the result.
UvioArrayWrapperNames ==
    {"uvflgwr", "uvinfo", "uvputvri", "uvputvrr", "uvputvrd", "mkread", "mkwrite"}

UvioArrayWrapperRow(w) ==
    CASE w = "uvflgwr" ->
            [arg |-> "flags", kind |-> "int", itemsize |-> NPY_SIZEOF_INT,
             kindtext |-> "must be int ndarray", sizetext |-> "must be plain-int-sized ndarray",
             fn |-> "uvflgwr_c", res |-> "None"]
      [] w = "uvinfo" ->
            [arg |-> "data", kind |-> "float", itemsize |-> NPY_SIZEOF_DOUBLE,
             kindtext |-> "must be float ndarray", sizetext |-> "must be double-sized ndarray",
             fn |-> "uvinfo_c", res |-> "None"]
      [] w = "uvputvri" ->
            [arg |-> "value", kind |-> "int", itemsize |-> NPY_SIZEOF_INT,
             kindtext |-> "must be integer ndarray", sizetext |-> "must be plain-int-sized ndarray",
             fn |-> "uvputvri_c", res |-> "None"]
      [] w = "uvputvrr" ->
            [arg |-> "value", kind |-> "float", itemsize |-> NPY_SIZEOF_FLOAT,
             kindtext |-> "must be float ndarray", sizetext |-> "must be plain-float-sized ndarray",
             fn |-> "uvputvrr_c", res |-> "None"]
      [] w = "uvputvrd" ->
            [arg |-> "value", kind |-> "float", itemsize |-> NPY_SIZEOF_DOUBLE,
             kindtext |-> "must be float ndarray", sizetext |-> "must be double-sized ndarray",
             fn |-> "uvputvrd_c", res |-> "None"]
      [] w = "mkread" ->
            [arg |-> "flags", kind |-> "int", itemsize |-> NPY_SIZEOF_INT,
             kindtext |-> "ndarray must be integer", sizetext |-> "ndarray must have integer itemsize",
             fn |-> "mkread_c", res |-> "int"]
      [] w = "mkwrite" ->
            [arg |-> "flags", kind |-> "int", itemsize |-> NPY_SIZEOF_INT,
             kindtext |-> "ndarray must be integer", sizetext |-> "ndarray must have integer itemsize",
             fn |-> "mkwrite_c", res |-> "None"]

uvio_py_array_wrapper(w, a, rs) ==
    LET row == UvioArrayWrapperRow(w)
        exc == uvio_check_array(a.arrs[1], row.arg, row.kind, row.itemsize,
                                row.kindtext, row.sizetext)
    IN  IF ~a.ok THEN Return(NULL, ArgError, FALSE)
        ELSE IF exc # NoExc THEN Return(NULL, exc, FALSE)
        ELSE IF rs = <<>> THEN Native(row.fn, "", a.n, 0, NoExc)
        ELSE Return(IF row.res = "None" THEN PyNone ELSE Res(row.res, rs[1].val), NoExc, TRUE)

\* --------------------------------------------------------------- uvchkshadow
\* Whether the build found uvchkshadow_c in the MIRIAD library: the
\* preprocessor symbol that selects one of the two definitions of
\* py_uvchkshadow and py_probe_uvchkshadow.  It never changes.
VARIABLE HAVE_UVCHKSHADOW

\* py_uvchkshadow (tno, diameter_meters) of a build with (have) or without
\* uvchkshadow_c; libname is the library named in the message of the module.
py_uvchkshadow(have, libname, a, rs) ==
    IF ~have
    THEN Return(NULL, Exc("NotImplementedError", libname, "no uvchkshadow_c() in library", 0),
                FALSE)
    ELSE IF ~a.ok THEN Return(NULL, ArgError, FALSE)
    ELSE IF rs = <<>> THEN Native("uvchkshadow_c", "", 0, 0, NoExc)
    ELSE Return(Res("bool", IF rs[1].val # 0 THEN 1 ELSE 0), NoExc, TRUE)

\* A py_probe_uvchkshadow that answers True in either build.
py_probe_uvchkshadow_always_true(have) == Return(Res("bool", 1), NoExc, FALSE)

\* py_probe_uvchkshadow: Py_RETURN_TRUE or Py_RETURN_FALSE by the build.
py_probe_uvchkshadow(have) == Return(Res("bool", IF have THEN 1 ELSE 0), NoExc, FALSE)

\* ------------------------------------------------------------------ keyini
\* py_keyini: one PyMem_Malloc'ed copy of the text of each element, in list
\* order, then keyini_c (len, argv).  PyString_AsString returns NULL for an
\* element that is no string (TypeError pending) and strlen (NULL) follows.
\* The copy of element i lies in a fresh block, outside the caller's buffers
\* 1..len.
py_keyini(a, rs) ==
    LET len == Len(a.list)
    IN  IF ~a.ok THEN Return(NULL, ArgError, FALSE)
        ELSE IF \E i \in 1..len : ~a.list[i].isstr
        THEN Undefined(Exc("TypeError", "PyString_AsString", "expected string", 0))
        ELSE IF rs = <<>>
        THEN NativeArgv("keyini_c", len, [i \in 1..len |-> Buf(len + i, a.list[i].txt)])
        ELSE Return(PyNone, NoExc, TRUE)

\* ----------------------------------------------------------- mirwcs_celset
\* The statuses celset of wcslib returns: success, null pointer, invalid
\* projection parameters, invalid coordinate transformation parameters.
CelStatuses == {0, 1, 2, 3}

\* A call of a function of wcslib: no MTS_CHECK_BUG precedes it.
NativeWcslib(fn) == [Native(fn, "", 0, 0, NoExc) EXCEPT !.armed = FALSE]

\* A py_mirwcs_celset that raises for a failing celset.
py_mirwcs_celset_raises(a, rs) ==
    IF ~a.ok THEN Return(NULL, ArgError, FALSE)
    ELSE IF rs = <<>> THEN NativeWcslib("celset")
    ELSE IF rs[1].val # 0
    THEN Return(NULL, Exc("ValueError", "celset", "cel_errmsg", rs[1].val), FALSE)
    ELSE Return(PyNone, NoExc, FALSE)

\* py_mirwcs_celset: status = celset (&(wcs->params.cel)); a non-zero status
\* is returned as the string cel_errmsg[status], zero as None.
py_mirwcs_celset(a, rs) ==
    IF ~a.ok THEN Return(NULL, ArgError, FALSE)
    ELSE IF rs = <<>> THEN NativeWcslib("celset")
    ELSE IF rs[1].val # 0 THEN Return(Res("cel_errmsg", rs[1].val), NoExc, FALSE)
    ELSE Return(PyNone, NoExc, FALSE)

\* ------------------------------------------------------------ method tables
\* A wrapper of a module's method table: its name and, for the MAKE_HIO
\* family, the ident.
W(name) == [name |-> name, ident |-> ""]
WHio(name, ident) == [name |-> name, ident |-> ident]

CommonNames == {"hopen", "hflush", "hdelete", "haccess", "hdaccess", "uvscan",
                "uvread", "uvwrite", "uvchkshadow", "probe_uvchkshadow", "keyini"}

Exported(m) ==
    IF m = "_miriad_c"
    THEN {W(n) : n \in CommonNames \cup {"hio_generic", "rdhd_generic", "mirwcs_celset"}
                        \cup ArrayWrapperNames}
    ELSE {W(n) : n \in CommonNames \cup {"hreada", "hwritea", "uvrdvra", "uvrdvri",
                                        "uvrdvrr", "uvrdvrd", "uvrdvrc"}
                        \cup UvioArrayWrapperNames}
         \cup {WHio(n, i) : n \in {"hread", "hwrite"}, i \in HioIdents}

\* The step of wrapper w of module m on arguments a after the responses rs.
Run(m, w, a, rs) ==
    CASE w.name = "hopen" -> py_hopen(a, rs)
      [] w.name = "hflush" -> py_hflush(a, rs)
      [] w.name = "hdelete" -> py_hdelete(a, rs)
      [] w.name = "haccess" -> py_haccess(a, rs)
      [] w.name = "hdaccess" -> py_hdaccess(a, rs)
      [] w.name = "hio_generic" -> py_hio_generic(a, rs)
      [] w.name = "rdhd_generic" -> py_rdhd_generic(a, rs)
      [] w.name = "uvscan" -> py_uvscan(a, rs)
      [] w.name = "uvread" -> IF m = "_uvio" THEN uvio_py_uvread(a, rs) ELSE py_uvread(a, rs)
      [] w.name = "uvwrite" -> IF m = "_uvio" THEN uvio_py_uvwrite(a, rs) ELSE py_uvwrite(a, rs)
      [] w.name = "hreada" -> py_hreada(a, rs)
      [] w.name = "hwritea" -> py_hwritea(a, rs)
      [] w.name = "hread" -> py_hread(w.ident, a, rs)
      [] w.name = "hwrite" -> py_hwrite(w.ident, a, rs)
      [] w.name = "uvrdvra" -> py_uvrdvra(a, rs)
      [] w.name = "uvrdvri" -> py_uvrdvri(a, rs)
      [] w.name = "uvrdvrr" -> py_uvrdvrr(a, rs)
      [] w.name = "uvrdvrd" -> py_uvrdvrd(a, rs)
      [] w.name = "uvrdvrc" -> py_uvrdvrc(a, rs)
      [] w.name = "uvchkshadow" ->
            py_uvchkshadow(HAVE_UVCHKSHADOW,
                           IF m = "_uvio" THEN "MIRIAD UVIO library" ELSE "MIRIAD library",
                           a, rs)
      [] w.name = "probe_uvchkshadow" -> py_probe_uvchkshadow(HAVE_UVCHKSHADOW)
      [] w.name = "keyini" -> py_keyini(a, rs)
      [] w.name = "mirwcs_celset" -> py_mirwcs_celset(a, rs)
      [] OTHER -> IF m = "_uvio" THEN uvio_py_array_wrapper(w.name, a, rs)
                  ELSE py_array_wrapper(w.name, a, rs)

\* ------------------------------------------------------------- environment
\* Statuses the native library reports: success, end of file, ENOENT.
IoStats == {0, -1, 2}

\* Type names hdprobe_c reports, and one it does not document.
TypeNames == {"nonexistent", "unknown", "binary", "text", "character", "real", "double",
              "integer*2", "integer", "integer*8", "complex", "weird"}

\* The native functions of the MIRIAD library, which report bugs to the bug
\* handler; celset belongs to wcslib.
IsMiriadNative(fn) == fn # "celset"

\* The responses of the native library to a call of fn.
Responses(fn) ==
    CASE fn \in {"hopen_c", "haccess_c", "hreada_c", "hio_c"} ->
            {Resp(0, 7, "", 0)} \cup {Resp(s, 0, "", 0) : s \in IoStats \ {0}}
      [] fn \in {"hflush_c", "hdelete_c", "hdaccess_c", "hwritea_c"} ->
            {Resp(s, 0, "", 0) : s \in IoStats}
      [] fn = "hdprobe_c" -> {Resp(0, 4, t, n) : t \in TypeNames, n \in {0, 1, 2}}
      [] fn = "uvscan_c" -> {Resp(0, v, "", 0) : v \in IoStats}
      [] fn = "uvchkshadow_c" -> {Resp(0, v, "", 0) : v \in {0, 2}}
      [] fn = "celset" -> {Resp(0, v, "", 0) : v \in CelStatuses}
      [] fn \in {"uvrdvra_c", "uvrdvri_c", "uvrdvrr_c", "uvrdvrd_c", "uvrdvrc_c"} ->
            {Resp(0, v, "", 0) : v \in {5, 6}}
      [] OTHER -> {Resp(0, 3, "", 0)}

\* A message the native library passes to the bug handler: its text and its
\* length in bytes (strlen).
Msg(txt, len) == [txt |-> txt, len |-> len]
EmptyMsg == Msg("", 0)
Msgs == {Msg("ma", BUFSZ - 1), Msg("mb", BUFSZ - 1), Msg("mc", BUFSZ)}
Severities == {"f", "w", "e"}

\* What a build can do after undefined behaviour.
UBOutcomes == {"crash", "error_return", "garbage_return"}

\* The lists the host passes to keyini: command-line words, and an object that
\* is no str.
ArgWords == {PyStr("in=vis"), PyStr("select=all"), PyOther}
ArgLists == {<<>>} \cup {<<x>> : x \in ArgWords} \cup {<<x, y>> : x, y \in ArgWords}

\* The ndarray that passes the check of the given name.
GoodArr(chk) ==
    CASE chk = "int" -> Arr("int32", TRUE, 2)
      [] chk = "float" -> Arr("float32", TRUE, 2)
      [] chk = "double" -> Arr("float64", TRUE, 2)
      [] chk \in {"complexf", "complex"} -> Arr("complex64", TRUE, 2)

HioGoodArr(ident) ==
    CASE ident = "b" -> Arr("uint8", TRUE, 2)
      [] ident = "i" -> Arr("int32", TRUE, 2)
      [] ident = "j" -> Arr("int16", TRUE, 2)
      [] ident = "l" -> Arr("int64", TRUE, 2)
      [] ident = "r" -> Arr("float32", TRUE, 2)
      [] ident = "d" -> Arr("float64", TRUE, 2)
      [] ident = "c" -> Arr("complex64", TRUE, 2)

GoodArrs(m, w) ==
    CASE w.name \in {"uvread", "uvwrite"} ->
            <<Arr("float64", TRUE, 4), Arr("complex64", TRUE, 2), Arr("int32", TRUE, 2)>>
      [] w.name = "hio_generic" -> <<Arr("int32", TRUE, 2)>>
      [] w.name \in {"hread", "hwrite"} -> <<HioGoodArr(w.ident)>>
      [] m = "_uvio" /\ w.name \in UvioArrayWrapperNames ->
            <<GoodArr(IF UvioArrayWrapperRow(w.name).itemsize = NPY_SIZEOF_DOUBLE
                      THEN "double" ELSE UvioArrayWrapperRow(w.name).kind)>>
      [] m = "_miriad_c" /\ w.name \in ArrayWrapperNames ->
            [i \in 1..Len(ArrayWrapperRow(w.name).checks) |->
                GoodArr(ArrayWrapperRow(w.name).checks[i][2])]
      [] OTHER -> <<>>

\* The arguments the host passes in the system specification: accepted or
\* rejected by PyArg_ParseTuple, the arrays all valid or the first one a
\* non-contiguous complex128 array.
CoreArgs(m, w) ==
    LET good == GoodArrs(m, w)
        bad == IF good = <<>> THEN <<>> ELSE [good EXCEPT ![1] = Arr("complex128", FALSE, 2)]
    IN  IF w.name = "keyini"
        THEN {ListArgs(ok, list) : ok \in BOOLEAN, list \in ArgLists}
        ELSE {Args(ok, arrs, 2, 1) : ok \in BOOLEAN, arrs \in {good, bad}}

\* The ndarrays of the argument specification.
RichDTypes == {"bool", "uint16", "int32", "int64", "float32", "float64", "complex64",
               "complex128"}
RichArrs == {Arr(d, c, 2) : d \in RichDTypes, c \in BOOLEAN}

\* The wrappers of hio_c that take the caller's buffer, and the nbytes
\* (_miriad_c) or length (_uvio) the host passes with a buffer of two elements:
\* inside the buffer, one element more than it holds, more bytes than any holds.
HioWrapperNames == {"hio_generic", "hread", "hwrite"}
HioLengths == {2, 3, 17}

RichArgs(m, w) ==
    IF w.name \in {"uvread", "uvwrite"}
    THEN {Args(TRUE, <<p, d, f>>, n, 0) :
            p \in {Arr(t, c, s) : t \in {"float64", "float32", "int32"}, c \in BOOLEAN,
                                  s \in {3, 4, 5, 6}},
            d \in {Arr(t, c, s) : t \in {"complex64", "complex128", "float64"}, c \in BOOLEAN,
                                  s \in {1, 2}},
            f \in {Arr(t, c, s) : t \in {"int32", "int64", "float32"}, c \in BOOLEAN,
                                  s \in {1, 2}},
            n \in {-1, 1, 2}}
    ELSE LET k == Len(GoodArrs(m, w))
         IN  {Args(TRUE, arrs, n, 0) :
                arrs \in [1..k -> RichArrs],
                n \in IF w.name \in HioWrapperNames THEN HioLengths ELSE {2}}

\* The wrappers that take ndarray arguments.
TakesArrays(m, w) == GoodArrs(m, w) # <<>>

\* ----------------------------------------------------------- the state
VARIABLES
    module,              \* the extension module imported into the process ("" before)
    mts_exc_miriad_err,  \* mirtasksupport.c: the MiriadError class ("" is NULL)
    mts_bug_recover,     \* mirtasksupport.c: the invocation whose setjmp filled it (0: none)
    bug_msg,             \* mirtasksupport.c: the static message buffer
    pyerr,               \* the host's pending exception (PyErr_Occurred)
    frames,              \* the C stack: the wrapper invocations inside a native call
    last,                \* the invocation the latest step completed, else NoCall
    nextId,              \* the number of the next invocation
    nbugs,               \* the bug reports made so far
    ub                   \* undefined behaviour has been executed

vars == <<module, mts_exc_miriad_err, mts_bug_recover, bug_msg, pyerr, frames, last,
          nextId, nbugs, ub, HAVE_UVCHKSHADOW>>

\* One native call as the wrapper made it.
NativeCall(st) == [fn |-> st.fn, t |-> st.t, a1 |-> st.a1, a2 |-> st.a2, argv |-> st.argv]

\* A wrapper invocation: its locals as far as the steps need them.  pc is
\* "native" inside the native function and "hook" inside PyErr_WarnEx; warn is
\* the message handed to PyErr_WarnEx and pend the exception pending when the
\* bug handler was last entered; warned and nested record that a non-fatal bug was
\* reported and that the hook called a wrapper.
Frame(id, w, a) ==
    [id |-> id, w |-> w, a |-> a, rs |-> <<>>, natives |-> <<>>, pc |-> "native",
     warn |-> EmptyMsg, pend |-> NoExc, warned |-> FALSE, nested |-> FALSE]

\* The record of a completed invocation.  exit is "return" for a return
\* statement of the wrapper's body, "jump" for the return NULL of MTS_CHECK_BUG
\* and "undefined" after undefined behaviour; sev and msg are the bug report
\* that ended it (sev is "f", "nonfatal", or "" when none did); exc is the
\* exception pending on return.
Done(f, depth, exit, result, exc, sev, msg) ==
    [id |-> f.id, w |-> f.w, a |-> f.a, rs |-> f.rs, natives |-> f.natives,
     warn |-> f.warn, pend |-> f.pend, warned |-> f.warned, nested |-> f.nested,
     depth |-> depth, exit |-> exit, result |-> result, exc |-> exc, sev |-> sev, msg |-> msg]

NoCall == Done(Frame(0, W(""), Args(FALSE, <<>>, 0, 0)), 0, "", NULL, NoExc, "", EmptyMsg)

Top == frames[Len(frames)]
Pop == SubSeq(frames, 1, Len(frames) - 1)

\* The process before a module is imported, in either build.
InitBuilds ==
    /\ HAVE_UVCHKSHADOW \in BOOLEAN
    /\ module = ""
    /\ mts_exc_miriad_err = ""
    /\ mts_bug_recover = 0
    /\ bug_msg = EmptyMsg
    /\ pyerr = NoExc
    /\ frames = <<>>
    /\ last = NoCall
    /\ nextId = 1
    /\ nbugs = 0
    /\ ub = FALSE

\* The build against a MIRIAD library that has uvchkshadow_c.
Init == InitBuilds /\ HAVE_UVCHKSHADOW = TRUE

\* -------------------------------------------------------- mirtasksupport.c
ModuleNames == {"_miriad_c", "_uvio"}

\* The class name each module's init function passes to mts_setup.
classname(m) == IF m = "_miriad_c" THEN "mirtask._miriad_c.MiriadError" ELSE "_uvio.MiriadError"

\* An mts_setup that may run again and replaces the exception class.
mts_setup_on_every_call(m) ==
    /\ module' = m
    /\ mts_exc_miriad_err' = IF module = "" THEN classname(m) ELSE "MiriadError"
    /\ last' = NoCall
    /\ UNCHANGED <<mts_bug_recover, bug_msg, pyerr, frames, nextId, nbugs, ub, HAVE_UVCHKSHADOW>>

\* mts_setup, called by the init function of the module being imported:
\* creates the exception class and installs bug_handler.
mts_setup(m) ==
    /\ module = ""
    /\ module' = m
    /\ mts_exc_miriad_err' = classname(m)
    /\ last' = NoCall
    /\ UNCHANGED <<mts_bug_recover, bug_msg, pyerr, frames, nextId, nbugs, ub, HAVE_UVCHKSHADOW>>

\* mts_set_bug: pe is the pending exception, msgbuf the contents of bug_msg.
mts_set_bug(pe, msgbuf) ==
    IF pe = NoExc THEN Exc("MiriadError", mts_exc_miriad_err, msgbuf.txt, msgbuf.len) ELSE pe

\* MTS_CHECK_BUG: setjmp stores the invocation's context in mts_bug_recover.
MTS_CHECK_BUG(id, armed, cur) == IF armed THEN id ELSE cur

\* strcpy (bug_msg, msg) stays inside bug_msg when the message and its
\* terminator fit.
strcpy_fits(msg) == msg.len + 1 <= BUFSZ

\* longjmp (mts_bug_recover, 1) from the bug handler running under invocation
\* f, with pe pending and msgbuf in bug_msg.  When f is the invocation that
\* filled mts_bug_recover, its setjmp returns 1: mts_set_bug (), return NULL.
\* Otherwise the function that called setjmp has returned and the behaviour is
\* undefined, as it is (defined = FALSE) when strcpy has written past bug_msg.
longjmp(f, defined, pe, msgbuf, sev, msg) ==
    IF defined /\ f.id = mts_bug_recover
    THEN /\ frames' = Pop
         /\ pyerr' = mts_set_bug(pe, msgbuf)
         /\ last' = Done(f, Len(frames), "jump", NULL, mts_set_bug(pe, msgbuf), sev, msg)
         /\ ub' = FALSE
    ELSE \E outcome \in UBOutcomes :
         /\ frames' = <<>>
         /\ pyerr' = IF outcome = "error_return" THEN mts_set_bug(pe, msgbuf) ELSE pe
         /\ last' = Done(f, Len(frames), "undefined",
                         IF outcome = "error_return" THEN NULL ELSE Res(outcome, 0),
                         IF outcome = "error_return" THEN mts_set_bug(pe, msgbuf) ELSE pe,
                         sev, msg)
         /\ ub' = TRUE

\* bug_handler (sev, msg), called by the native library from inside a native
\* call.  'f': strcpy into bug_msg and longjmp.  Any other severity:
\* PyErr_WarnEx (PyExc_UserWarning, msg, 1) is entered, which runs host code.
bug_handler(sev, msg) ==
    /\ ~ub
    /\ frames # <<>>
    /\ Top.pc = "native"
    /\ IsMiriadNative(Top.natives[Len(Top.natives)].fn)
    /\ nbugs < MaxBugs
    /\ nbugs' = nbugs + 1
    /\ IF sev = "f"
       THEN /\ bug_msg' = msg
            /\ longjmp([Top EXCEPT !.pend = pyerr], strcpy_fits(msg), pyerr, msg, sev, msg)
       ELSE /\ frames' = [frames EXCEPT ![Len(frames)] =
                            [@ EXCEPT !.pc = "hook", !.warn = msg, !.pend = pyerr,
                                      !.warned = TRUE]]
            /\ last' = NoCall
            /\ UNCHANGED <<bug_msg, pyerr, ub>>
    /\ UNCHANGED <<module, mts_exc_miriad_err, mts_bug_recover, nextId, HAVE_UVCHKSHADOW>>

\* What PyErr_WarnEx can leave pending when it returns to bug_handler: nothing
\* (the warning was shown or ignored), the UserWarning raised as an exception
\* (the host's filters promote it), or whatever the host code it ran left
\* pending.
WarnOutcomes(f, pe) ==
    IF f.pend = NoExc
    THEN {NoExc, Exc("UserWarning", "", f.warn.txt, f.warn.len), pe}
    ELSE {f.pend, Exc("UserWarning", "", f.warn.txt, f.warn.len)}

\* The rest of bug_handler after PyErr_WarnEx has returned:
\* if (PyErr_Occurred ()) longjmp (mts_bug_recover, 1); else return to the
\* native library.
bug_handler_warned(e) ==
    /\ ~ub
    /\ frames # <<>>
    /\ Top.pc = "hook"
    /\ e \in WarnOutcomes(Top, pyerr)
    /\ IF e # NoExc
       THEN longjmp(Top, TRUE, e, bug_msg, "nonfatal", Top.warn)
       ELSE /\ frames' = [frames EXCEPT ![Len(frames)] = [@ EXCEPT !.pc = "native"]]
            /\ pyerr' = NoExc
            /\ last' = NoCall
            /\ ub' = FALSE
    /\ UNCHANGED <<module, mts_exc_miriad_err, mts_bug_recover, bug_msg, nextId, nbugs,
                   HAVE_UVCHKSHADOW>>

\* ------------------------------------------------------- wrapper invocations
\* The wrappers the host code run by a warning calls.
HookWrappers == {W("hflush"), W("uvscan")}

\* The host calls wrapper w with arguments a: from its main line when no
\* invocation is active, or from the code that PyErr_WarnEx runs.  The host
\* calls with no exception pending.  The wrapper runs to its first native call
\* or to its return.
Invoke(w, a) ==
    LET st == Run(module, w, a, <<>>)
        f == Frame(nextId, w, a)
        below == IF frames = <<>> THEN frames
                 ELSE [frames EXCEPT ![Len(frames)] = [@ EXCEPT !.nested = TRUE]]
    IN  /\ mts_bug_recover' = MTS_CHECK_BUG(nextId, st.armed, mts_bug_recover)
        /\ nextId' = nextId + 1
        /\ pyerr' = st.exc
        /\ CASE st.op = "native" ->
                /\ frames' = Append(below, [f EXCEPT !.natives = <<NativeCall(st)>>])
                /\ last' = NoCall
                /\ ub' = ub
             [] st.op = "return" ->
                /\ frames' = below
                /\ last' = Done(f, Len(frames) + 1, "return", st.result, st.exc, "", EmptyMsg)
                /\ ub' = ub
             [] st.op = "undefined" ->
                \E outcome \in UBOutcomes :
                    /\ frames' = <<>>
                    /\ last' = Done(f, Len(frames) + 1, "undefined",
                                    IF outcome = "error_return" THEN NULL ELSE Res(outcome, 0),
                                    st.exc, "", EmptyMsg)
                    /\ ub' = TRUE
        /\ UNCHANGED <<module, mts_exc_miriad_err, bug_msg, nbugs, HAVE_UVCHKSHADOW>>

Call ==
    /\ ~ub
    /\ module # ""
    /\ nextId <= MaxCalls
    /\ frames = <<>>
    /\ \E w \in Exported(module) : \E a \in CoreArgs(module, w) : Invoke(w, a)

HookCall ==
    /\ ~ub
    /\ nextId <= MaxCalls
    /\ frames # <<>>
    /\ Len(frames) < MaxDepth
    /\ Top.pc = "hook"
    /\ Top.pend = NoExc
    /\ \E w \in HookWrappers : Invoke(w, Args(TRUE, <<>>, 0, 0))

\* The native function returns to the wrapper, which runs to its next native
\* call or to its return.
NativeReturn ==
    /\ ~ub
    /\ frames # <<>>
    /\ Top.pc = "native"
    /\ \E resp \in Responses(Top.natives[Len(Top.natives)].fn) :
        LET f == [Top EXCEPT !.rs = Append(@, resp)]
            st == Run(module, f.w, f.a, f.rs)
            pe == IF st.exc # NoExc THEN st.exc ELSE pyerr
        IN  /\ pyerr' = pe
            /\ IF st.op = "native"
               THEN /\ frames' = [frames EXCEPT ![Len(frames)] =
                                    [f EXCEPT !.natives = Append(@, NativeCall(st))]]
                    /\ last' = NoCall
               ELSE /\ frames' = Pop
                    /\ last' = Done(f, Len(frames), "return", st.result, pe, "", EmptyMsg)
    /\ UNCHANGED <<module, mts_exc_miriad_err, mts_bug_recover, bug_msg, nextId, nbugs, ub,
                   HAVE_UVCHKSHADOW>>

Import == \E m \in ModuleNames : mts_setup(m)
BugReport == \E sev \in Severities : \E msg \in Msgs : bug_handler(sev, msg)
WarnReturn == frames # <<>> /\ \E e \in WarnOutcomes(Top, pyerr) : bug_handler_warned(e)

Next == Import \/ Call \/ HookCall \/ NativeReturn \/ BugReport \/ WarnReturn

Spec == Init /\ [][Next]_vars

\* ---------------------------------------------- the argument specification
\* One invocation of a wrapper that takes ndarrays, over every combination of
\* element type, contiguity and size of its arrays, with the native library
\* answering and reporting no bug.
CallArrays ==
    /\ module # ""
    /\ nextId = 1
    /\ frames = <<>>
    /\ \E w \in {x \in Exported(module) : TakesArrays(module, x)} :
        \E a \in RichArgs(module, w) : Invoke(w, a)

NextArrays == Import \/ CallArrays \/ NativeReturn

SpecArrays == Init /\ [][NextArrays]_vars

\* ===================================================================== claims
\* The statuses an invocation received: the iostat of every native call that
\* reports one (hdprobe_c reports none).
StatusOf(c) == {c.rs[i].iostat : i \in {j \in 1..Len(c.rs) : c.natives[j].fn # "hdprobe_c"}}

\* The wrappers that receive an I/O status from the native library.
IoStatusWrappers ==
    {"hopen", "hflush", "hdelete", "haccess", "hdaccess", "hio_generic", "hread", "hwrite",
     "hreada", "hwritea", "rdhd_generic"}

\* An invocation of such a wrapper that received a status and was completed by
\* the wrapper's own code.
ReturnedWithStatus(c) ==
    /\ c.w.name \in IoStatusWrappers
    /\ c.exit = "return"
    /\ StatusOf(c) # {}

\* py_rdhd_generic on an item whose type name is none of those it handles.
UnrecognisedItemType(c) ==
    /\ c.w.name = "rdhd_generic"
    /\ c.rs # <<>>
    /\ rdhd_scalar(c.rs[1].type).t = ""

\* C1 (as claimed): an invocation ended by a bug of severity 'f' is ended by
\* the jump to its own recovery point (so no later step of it runs), returns
\* the error indicator, and, when nothing was pending as the handler was
\* entered, leaves MiriadError pending with exactly the reported message.
C1_FatalAbortsWithMessage ==
    last.sev = "f" =>
        /\ last.exit = "jump"
        /\ last.result = NULL
        /\ Len(last.natives) = Len(last.rs) + 1
        /\ last.pend = NoExc =>
              last.exc = Exc("MiriadError", mts_exc_miriad_err, last.msg.txt, last.msg.len)

\* C2 (as claimed): a bug of another severity issues a UserWarning with the
\* message and the invocation goes on to its own return; it is ended by the
\* jump only with an exception pending after the warning, and then that
\* exception, never MiriadError, is what the returning wrapper leaves pending.
C2_WarningContinuesOrPropagates ==
    /\ \A i \in 1..Len(frames) : frames[i].pc = "hook" => frames[i].warn \in Msgs
    /\ last.sev = "nonfatal" =>
          /\ last.exit = "jump"
          /\ last.result = NULL
          /\ last.exc # NoExc
          /\ last.exc.type # "MiriadError"
    /\ (last.warned /\ last.sev = "") => last.exit = "return"

\* C3 (as claimed): a wrapper that received statuses and returned by its own
\* code returns its normal result with nothing pending when every status was
\* 0, and the error indicator with IOError(errno = status) when one was not.
C3_IostatAsClaimed ==
    ReturnedWithStatus(last) =>
        IF StatusOf(last) = {0}
        THEN last.result # NULL /\ last.exc = NoExc
        ELSE /\ last.result = NULL
             /\ \E s \in StatusOf(last) \ {0} : last.exc = Exc("IOError", "errno", "strerror", s)

\* C3 (amended): as claimed, except that py_rdhd_generic on an item whose
\* type name it does not recognise returns the error indicator with
\* ValueError pending when every status was 0.
C3_Iostat ==
    ReturnedWithStatus(last) =>
        IF StatusOf(last) = {0}
        THEN IF UnrecognisedItemType(last)
             THEN last.result = NULL /\ last.exc = Exc("ValueError", "item", "unexpected type", 0)
             ELSE last.result # NULL /\ last.exc = NoExc
        ELSE /\ last.result = NULL
             /\ \E s \in StatusOf(last) \ {0} : last.exc = Exc("IOError", "errno", "strerror", s)

C3_Witness_UnrecognisedType ==
    /\ ReturnedWithStatus(last)
    /\ UnrecognisedItemType(last)
    /\ StatusOf(last) = {0}
    /\ Len(last.natives) = 3
    /\ last.exc.type = "ValueError"

\* C7 (as claimed): once a module is imported, no step changes a file-scope
\* variable of mirtasksupport.c.
C7_NoGlobalChanges ==
    [][module # "" => UNCHANGED <<mts_exc_miriad_err, mts_bug_recover, bug_msg>>]_vars

\* C7 (amended): once a module is imported the exception-type handle never
\* changes; mts_bug_recover changes only in a step that starts an invocation,
\* to that invocation; bug_msg changes only in a step in which a bug of
\* severity 'f' is reported, to that bug's message.
C7_GlobalsWrittenOnlyByArmingAndFatalBugs ==
    [][module # "" =>
        /\ module' = module
        /\ mts_exc_miriad_err' = mts_exc_miriad_err
        /\ mts_bug_recover' # mts_bug_recover =>
              (nextId' = nextId + 1 /\ mts_bug_recover' = nextId)
        /\ bug_msg' # bug_msg =>
              (nbugs' = nbugs + 1 /\ last'.sev = "f" /\ bug_msg' = last'.msg)]_vars

C7_Witness_AllThreeWritten ==
    /\ mts_exc_miriad_err = classname(module)
    /\ module # ""
    /\ mts_bug_recover = 2
    /\ bug_msg \in Msgs
    /\ last.sev = "f"

\* C8 (as claimed): at most one wrapper invocation is between arming its
\* recovery point and returning.
C8_AtMostOneActiveInvocation == Len(frames) <= 1

\* C9: an invocation of uvscan that its own code completes after uvscan_c
\* answered returns the status when it is 0 or -1, with nothing pending, and
\* otherwise returns the error indicator with IOError(errno = status); so an
\* integer it returns is 0 or -1.
C9_UvscanStatus ==
    (last.w.name = "uvscan" /\ last.exit = "return") =>
        /\ last.rs # <<>> =>
              IF last.rs[1].val \in {0, -1}
              THEN last.result = Res("int", last.rs[1].val) /\ last.exc = NoExc
              ELSE /\ last.result = NULL
                   /\ last.exc = Exc("IOError", "errno", "strerror", last.rs[1].val)
        /\ last.result # NULL => last.result \in {Res("int", 0), Res("int", -1)}

C9_Witness_EndOfFile ==
    /\ last.w.name = "uvscan"
    /\ last.exit = "return"
    /\ last.rs # <<>>
    /\ last.rs[1].val = -1
    /\ last.result = Res("int", -1)
    /\ last.exc = NoExc

\* The native reader of each typed first-value reader's own type.
OwnReader(name) ==
    CASE name = "uvrdvra" -> "uvrdvra_c"
      [] name = "uvrdvri" -> "uvrdvri_c"
      [] name = "uvrdvrr" -> "uvrdvrr_c"
      [] name = "uvrdvrd" -> "uvrdvrd_c"
      [] name = "uvrdvrc" -> "uvrdvrc_c"

\* C10 (as claimed): a typed first-value reader of _uvio that its own code
\* completes has called the native reader of its own type exactly once, with
\* the caller's default, and returns the value that reader produced.
C10_TypedReaderCallsOwnReader ==
    (/\ module = "_uvio"
     /\ last.w.name \in {"uvrdvra", "uvrdvri", "uvrdvrr", "uvrdvrd", "uvrdvrc"}
     /\ last.exit = "return"
     /\ last.a.ok) =>
        /\ Len(last.natives) = 1
        /\ last.natives[1].fn = OwnReader(last.w.name)
        /\ last.natives[1].a1 = last.a.dflt
        /\ last.result.val = last.rs[1].val

\* ------------------------------------------------ claims about ndarray checks
\* What a wrapper demands of each of its ndarray arguments, in positional
\* order: the argument's name, the element kind and the item size (0: none).
Demand(arg, kind, itemsize) == [arg |-> arg, kind |-> kind, itemsize |-> itemsize]

CheckDemand(arg, chk) ==
    CASE chk = "int" -> Demand(arg, "int", NPY_SIZEOF_INT)
      [] chk = "float" -> Demand(arg, "float", NPY_SIZEOF_FLOAT)
      [] chk = "double" -> Demand(arg, "float", NPY_SIZEOF_DOUBLE)
      [] chk = "complexf" -> Demand(arg, "complex", 2 * NPY_SIZEOF_FLOAT)

HioKind(dtype) ==
    CASE dtype = "HD_INTEGER" -> "int"
      [] dtype = "HD_FLOAT" -> "float"
      [] dtype = "HD_COMPLEX" -> "complex"

ArrayDemands(m, w) ==
    CASE w.name \in {"uvread", "uvwrite"} ->
            <<Demand("preamble", "float", NPY_SIZEOF_DOUBLE),
              Demand("data", "complex", 2 * NPY_SIZEOF_FLOAT),
              Demand("flags", "int", NPY_SIZEOF_INT)>>
      [] w.name = "hio_generic" -> <<Demand("buf", "handled", 0)>>
      [] w.name \in {"hread", "hwrite"} ->
            <<Demand("buf", HioKind(MAKE_HIO(w.ident).dtype), MAKE_HIO(w.ident).size)>>
      [] m = "_uvio" /\ w.name \in UvioArrayWrapperNames ->
            <<Demand(UvioArrayWrapperRow(w.name).arg, UvioArrayWrapperRow(w.name).kind,
                     UvioArrayWrapperRow(w.name).itemsize)>>
      [] m = "_miriad_c" /\ w.name \in ArrayWrapperNames ->
            [i \in 1..Len(ArrayWrapperRow(w.name).checks) |->
                CheckDemand(ArrayWrapperRow(w.name).checks[i][1],
                            ArrayWrapperRow(w.name).checks[i][2])]
      [] OTHER -> <<>>

KindOk(array, kind) ==
    CASE kind = "int" -> PyArray_ISINTEGER(array)
      [] kind = "float" -> PyArray_ISFLOAT(array)
      [] kind = "complex" -> PyArray_ISCOMPLEX(array)
      [] kind = "handled" -> hio_mirtype(array.dtype) # ""

\* The first check an array fails when the checks run in the order element
\* kind, item size, contiguity; "" when it passes all three.
FirstFailing(array, d) ==
    IF ~KindOk(array, d.kind) THEN "kind"
    ELSE IF d.itemsize # 0 /\ PyArray_ITEMSIZE(array) # d.itemsize THEN "itemsize"
    ELSE IF ~PyArray_ISCONTIGUOUS(array) THEN "contiguity"
    ELSE ""

\* The check an exception text reports.
ContiguityTexts == {"must be a contiguous ndarray", "must be contiguous ndarray"}
ItemsizeTexts ==
    {"must be a plain-int-sized ndarray", "must be a plain-float-sized ndarray",
     "must be a double-sized ndarray", "must be a plain-complex-sized ndarray",
     "must be plain-int-sized ndarray", "must be plain-float-sized ndarray",
     "must be double-sized ndarray", "must be plain-complex-sized ndarray",
     "ndarray has bad itemsize", "ndarray must have integer itemsize"}
KindTexts ==
    {"must be an integer ndarray", "must be an float ndarray", "must be a complex ndarray",
     "must be int ndarray", "must be integer ndarray", "must be float ndarray",
     "must be complex ndarray", "ndarray is of wrong type", "ndarray must be integer",
     "unhandled buffer type"}
ReportedCheck(exc) ==
    IF exc.text \in ContiguityTexts THEN "contiguity"
    ELSE IF exc.text \in ItemsizeTexts THEN "itemsize"
    ELSE IF exc.text \in KindTexts THEN "kind"
    ELSE ""

\* The arrays of invocation c that fail a check.
FailingArrays(c) ==
    {i \in 1..Len(c.a.arrs) : FirstFailing(c.a.arrs[i], ArrayDemands(module, c.w)[i]) # ""}

\* An invocation of a wrapper that takes ndarrays, whose arguments parsed and
\* of which at least one array fails a check.
RejectedArrays(c) ==
    /\ c.id # 0
    /\ c.a.ok
    /\ FailingArrays(c) # {}

\* The invocation made no native call and returned the error indicator with
\* an exception that reports, for one of the failing arrays, the first check
\* that array fails.
RejectedAsOrdered(c) ==
    /\ c.natives = <<>>
    /\ c.exit = "return"
    /\ c.result = NULL
    /\ \E i \in FailingArrays(c) :
          /\ c.exc.type \in {"ValueError", "TypeError"}
          /\ c.exc.who = ArrayDemands(module, c.w)[i].arg
          /\ ReportedCheck(c.exc) = FirstFailing(c.a.arrs[i], ArrayDemands(module, c.w)[i])

\* No invocation is inside a native call with an array that fails a check.
NoActiveRejected ==
    \A i \in 1..Len(frames) : FailingArrays(frames[i]) = {}

\* C4 (as claimed): every invocation with an array that fails a check returns
\* without a native call, raising the error of the first check the array fails
\* in the order kind, item size, contiguity.
C4_ArrayChecksAsClaimed ==
    /\ NoActiveRejected
    /\ RejectedArrays(last) => RejectedAsOrdered(last)

\* py_hio_generic of _miriad_cmodule.c.
IsMiriadHioGeneric(c) == module = "_miriad_c" /\ c.w.name = "hio_generic"

\* C4 (amended): as claimed for every wrapper but hio_generic of _miriad_c,
\* which tests contiguity before the element type: it too makes no native
\* call and raises, reporting contiguity whenever the buffer is not
\* contiguous and the element type otherwise.
C4_ArrayChecks ==
    /\ NoActiveRejected
    /\ RejectedArrays(last) =>
          IF IsMiriadHioGeneric(last)
          THEN /\ last.natives = <<>>
               /\ last.exit = "return"
               /\ last.result = NULL
               /\ last.exc.type = "ValueError"
               /\ last.exc.who = "buf"
               /\ ReportedCheck(last.exc) =
                     IF ~PyArray_ISCONTIGUOUS(last.a.arrs[1]) THEN "contiguity" ELSE "kind"
          ELSE RejectedAsOrdered(last)

C4_Witness_ContiguityBeforeKind ==
    /\ IsMiriadHioGeneric(last)
    /\ RejectedArrays(last)
    /\ FirstFailing(last.a.arrs[1], ArrayDemands(module, last.w)[1]) = "kind"
    /\ ReportedCheck(last.exc) = "contiguity"

\* C5: uvread and uvwrite, given arguments that parse, are inside uvread_c or
\* uvwrite_c only with arrays that pass the type checks, a preamble of 4 or 5
\* elements, and flags and data of at least n elements; with arrays that pass
\* the type checks they return ValueError for the first size check that fails
\* in the order preamble, flags, data, without a native call, and call the
\* native function when none fails.
UvSizeFailure(a) ==
    IF PyArray_SIZE(a.arrs[1]) \notin {4, 5} THEN "preamble"
    ELSE IF PyArray_SIZE(a.arrs[3]) < a.n THEN "flags"
    ELSE IF PyArray_SIZE(a.arrs[2]) < a.n THEN "data"
    ELSE ""

C5_UvSizeChecks ==
    /\ \A i \in 1..Len(frames) :
          frames[i].w.name \in {"uvread", "uvwrite"} =>
              /\ FailingArrays(frames[i]) = {}
              /\ UvSizeFailure(frames[i].a) = ""
    /\ (last.w.name \in {"uvread", "uvwrite"} /\ last.a.ok /\ last.exit = "return") =>
          IF FailingArrays(last) # {}
          THEN last.natives = <<>> /\ last.result = NULL /\ ReportedCheck(last.exc) # ""
          ELSE IF UvSizeFailure(last.a) # ""
          THEN /\ last.natives = <<>>
               /\ last.result = NULL
               /\ last.exc.type = "ValueError"
               /\ last.exc.who = UvSizeFailure(last.a)
          ELSE /\ Len(last.natives) = 1
               /\ last.natives[1].fn \in {"uvread_c", "uvwrite_c"}
               /\ last.result # NULL

C5_Witness_DataTooShort ==
    /\ last.w.name \in {"uvread", "uvwrite"}
    /\ last.a.ok
    /\ FailingArrays(last) = {}
    /\ PyArray_SIZE(last.a.arrs[1]) = 5
    /\ PyArray_SIZE(last.a.arrs[3]) >= last.a.n
    /\ PyArray_SIZE(last.a.arrs[2]) < last.a.n
    /\ last.exc = Exc("ValueError", "data", "array must have at least n elements", last.a.n)
    /\ last.natives = <<>>

\* ------------------------------------------------------ claims about headio
\* The scalar type names of header items.
ScalarTypeNames == {"real", "double", "integer*2", "integer", "integer*8", "complex"}

\* The stage at which a probed type name and size are classified, the stages
\* taken in this order.
Classify(type, n) ==
    IF type = "nonexistent" THEN "nonexistent"
    ELSE IF type = "unknown" THEN "unknown"
    ELSE IF n = 0 THEN "size0"
    ELSE IF type = "binary" THEN "binary"
    ELSE IF type = "text" THEN "text"
    ELSE IF type = "character" THEN "character"
    ELSE IF n # 1 THEN "sizenot1"
    ELSE "open"

\* What rdhd_generic hands back for each stage before the item is opened.
StageOutcome(stage, r) ==
    CASE stage = "nonexistent" -> [result |-> PyNone, exc |-> NoExc]
      [] stage = "unknown" ->
            [result |-> NULL,
             exc |-> Exc("ValueError", "item", "is not of a well-defined type", 0)]
      [] stage = "size0" ->
            [result |-> NULL, exc |-> Exc("ValueError", "item", "size couldn't be determined", 0)]
      [] stage = "binary" ->
            [result |-> NULL, exc |-> Exc("ValueError", "item", "is of a mixed binary type", 0)]
      [] stage = "text" ->
            [result |-> NULL,
             exc |-> Exc("ValueError", "item", "is of an extended textual type", 0)]
      [] stage = "character" -> [result |-> Res("str", r.val), exc |-> NoExc]
      [] stage = "sizenot1" ->
            [result |-> NULL, exc |-> Exc("ValueError", "item", "size is not one", r.n)]

\* An invocation of rdhd_generic that hdprobe_c answered and that the
\* wrapper's own code completed.
RdhdReturned(c) ==
    /\ c.w.name = "rdhd_generic"
    /\ c.exit = "return"
    /\ c.rs # <<>>

\* C11: rdhd_generic classifies by the probed type and size in the order
\* nonexistent, unknown, size 0, binary, text, character, size not 1; in those
\* stages it returns the stage's outcome after hdprobe_c alone; otherwise it
\* opens the item and, every status being 0, returns a scalar of the probed
\* type for a scalar type name and raises ValueError for any other name.
C11_RdhdClassification ==
    /\ \A i \in 1..Len(frames) :
          (frames[i].w.name = "rdhd_generic"
           /\ \E j \in 1..Len(frames[i].natives) : frames[i].natives[j].fn = "haccess_c") =>
              Classify(frames[i].rs[1].type, frames[i].rs[1].n) = "open"
    /\ RdhdReturned(last) =>
          LET r == last.rs[1]
              stage == Classify(r.type, r.n)
          IN  IF stage # "open"
              THEN /\ Len(last.natives) = 1
                   /\ last.result = StageOutcome(stage, r).result
                   /\ last.exc = StageOutcome(stage, r).exc
              ELSE /\ Len(last.natives) >= 2
                   /\ last.natives[2].fn = "haccess_c"
                   /\ StatusOf(last) = {0} =>
                         IF r.type \in ScalarTypeNames
                         THEN last.result = Res(r.type, last.rs[3].val) /\ last.exc = NoExc
                         ELSE last.result = NULL /\ last.exc.type = "ValueError"

C11_Witness_SizeZeroBeforeBinary ==
    /\ RdhdReturned(last)
    /\ last.rs[1].type = "binary"
    /\ last.rs[1].n = 0
    /\ last.exc.text = "size couldn't be determined"

\* --------------------------------------------------- the build specification
\* Both builds, with the host calling uvchkshadow and probe_uvchkshadow.
CallShadow ==
    /\ ~ub
    /\ module # ""
    /\ nextId <= MaxCalls
    /\ frames = <<>>
    /\ \E w \in {W("uvchkshadow"), W("probe_uvchkshadow")} :
        \E a \in CoreArgs(module, w) : Invoke(w, a)

NextBuilds == Import \/ CallShadow \/ NativeReturn \/ BugReport \/ WarnReturn

SpecBuilds == InitBuilds /\ [][NextBuilds]_vars

\* C12: probe_uvchkshadow returns True exactly in the build with
\* uvchkshadow_c.  In the build without it every uvchkshadow call, whatever
\* its arguments, makes no native call and raises NotImplementedError; in the
\* build with it no uvchkshadow call raises NotImplementedError, and a call
\* that uvchkshadow_c answers returns True for a non-zero answer and False
\* for 0.
C12_ProbeTellsTheBuild ==
    /\ last.w.name = "probe_uvchkshadow" =>
          /\ last.result = Res("bool", IF HAVE_UVCHKSHADOW THEN 1 ELSE 0)
          /\ last.exc = NoExc
          /\ last.natives = <<>>
    /\ ~HAVE_UVCHKSHADOW =>
          /\ \A i \in 1..Len(frames) : frames[i].w.name # "uvchkshadow"
          /\ last.w.name = "uvchkshadow" =>
                /\ last.natives = <<>>
                /\ last.result = NULL
                /\ last.exc.type = "NotImplementedError"
    /\ (HAVE_UVCHKSHADOW /\ last.w.name = "uvchkshadow") =>
          /\ last.exc.type # "NotImplementedError"
          /\ (last.exit = "return" /\ last.rs # <<>>) =>
                /\ last.result = Res("bool", IF last.rs[1].val = 0 THEN 0 ELSE 1)
                /\ last.exc = NoExc

C12_Witness_NotImplementedUnparsed ==
    /\ ~HAVE_UVCHKSHADOW
    /\ last.w.name = "uvchkshadow"
    /\ ~last.a.ok
    /\ last.exc.type = "NotImplementedError"

\* ------------------------------------------------------------------ C13
\* The text of the caller's str objects after keyini_c has overwritten every
\* buffer of argv: the str whose buffer is in argv is clobbered.
CallerStringsAfter(list, argv) ==
    [i \in 1..Len(list) |->
        IF \E j \in 1..Len(argv) : argv[j].addr = i THEN "clobbered" ELSE list[i].txt]

\* argv holds one private copy per element of list, in list order.
PrivateCopies(list, argv) ==
    /\ Len(argv) = Len(list)
    /\ \A i \in 1..Len(list) : argv[i].txt = list[i].txt /\ argv[i].addr \notin 1..Len(list)
    /\ \A i, j \in 1..Len(argv) : argv[i].addr = argv[j].addr => i = j

\* C13: every keyini invocation given a list calls keyini_c once, with the
\* element count as argc and one private copy per list element in list order,
\* and leaves the caller's strings as they were whatever keyini_c writes into
\* the copies.
C13_KeyiniPrivateCopies ==
    (last.w.name = "keyini" /\ last.a.ok) =>
        /\ last.exit # "undefined"
        /\ Len(last.natives) = 1
        /\ last.natives[1].fn = "keyini_c"
        /\ last.natives[1].a1 = Len(last.a.list)
        /\ PrivateCopies(last.a.list, last.natives[1].argv)
        /\ CallerStringsAfter(last.a.list, last.natives[1].argv)
             = [i \in 1..Len(last.a.list) |-> last.a.list[i].txt]

\* ------------------------------------------------------------------ C14
\* C14: an invocation of mirwcs_celset in which celset has returned ends by a
\* return with no exception pending; its result is None exactly when the status
\* of celset is 0, and otherwise the string cel_errmsg[status].
C14_CelsetStatusAsString ==
    (last.w.name = "mirwcs_celset" /\ last.rs # <<>>) =>
        /\ last.exit = "return"
        /\ last.exc = NoExc
        /\ pyerr = NoExc
        /\ last.result # NULL
        /\ (last.result = PyNone) <=> (last.rs[1].val = 0)
        /\ last.rs[1].val # 0 => last.result = Res("cel_errmsg", last.rs[1].val)

C14_Witness_FailingCelset ==
    /\ last.w.name = "mirwcs_celset"
    /\ last.rs # <<>>
    /\ last.rs[1].val = 2
    /\ last.result = Res("cel_errmsg", 2)
    /\ pyerr = NoExc

\* ------------------------------------------------------------------ C15
\* C15: the step in which an invocation makes its first call of a MIRIAD
\* native function leaves the recovery point armed by that invocation:
\* MTS_CHECK_BUG has run in it before the call.
C15_ArmedBeforeFirstNative ==
    [][(frames' # <<>> /\ Len(frames') = Len(frames) + 1
            /\ IsMiriadNative(frames'[Len(frames')].natives[1].fn))
        => mts_bug_recover' = frames'[Len(frames')].id]_vars

C15_Witness_NestedArmed ==
    /\ Len(frames) = 2
    /\ Top.pc = "native"
    /\ IsMiriadNative(Top.natives[1].fn)
    /\ mts_bug_recover = Top.id
    /\ frames[1].id # Top.id

\* ------------------------------------------------------------------ C16
\* C16: whenever the bug handler executes longjmp, mts_bug_recover was filled
\* by an invocation that is still active.
C16_JumpsIntoActiveInvocation ==
    [][(last'.exit \in {"jump", "undefined"} /\ last'.sev # "")
        => \E i \in 1..Len(frames) : frames[i].id = mts_bug_recover]_vars

\* ------------------------------------------------------------------ C17
\* An invocation that ended with a result object and no exception pending, or
\* with the error indicator and an exception pending.
ConsistentEnd(c) ==
    \/ c.result # NULL /\ c.result.kind \notin UBOutcomes /\ c.exc = NoExc /\ pyerr = NoExc
    \/ c.result = NULL /\ c.exc # NoExc /\ pyerr = c.exc

\* C17: every invocation ends with a result object and no exception pending
\* or with the error indicator and an exception pending.
C17_ResultXorException == last # NoCall => ConsistentEnd(last)

\* ------------------------------------------------------------------ C18
\* An invocation that met no bug, whose native calls all reported status 0
\* and whose wrapper reaches a return statement on its arguments.
CleanCall(c) ==
    /\ c # NoCall
    /\ Run(module, c.w, c.a, c.rs).op = "return"
    /\ c.sev = ""
    /\ ~c.warned
    /\ \A i \in 1..Len(c.rs) : c.rs[i].iostat = 0

\* The invocation ended as its wrapper ends on its arguments and responses
\* alone.
NormalResult(c, pe) ==
    LET st == Run(module, c.w, c.a, c.rs)
    IN  /\ c.exit = "return"
        /\ st.op = "return"
        /\ c.result = st.result
        /\ c.exc = pe
        /\ st.exc # NoExc => pe = st.exc

\* C18: once a fatal bug has aborted a call (bug_msg holds its message), a
\* call that meets no bug and no non-zero status returns its normal result,
\* and a call ended by a fatal bug with nothing pending raises MiriadError
\* with the message of that bug.
C18_NoStateAfterFatalAbort ==
    [][bug_msg # EmptyMsg =>
        /\ CleanCall(last') => NormalResult(last', pyerr')
        /\ (last'.sev = "f" /\ last'.pend = NoExc) =>
              /\ last'.result = NULL
              /\ last'.exc = Exc("MiriadError", mts_exc_miriad_err, last'.msg.txt, last'.msg.len)
              /\ pyerr' = last'.exc]_vars

\* ------------------------------------------------------------------ C19
\* The invocation of rdhd_generic opened the item: haccess_c reported status 0.
RdhdOpened(c) ==
    /\ c.w.name = "rdhd_generic"
    /\ Len(c.rs) >= 2
    /\ c.natives[2].fn = "haccess_c"
    /\ c.rs[2].iostat = 0

\* C19: an invocation of rdhd_generic that opened the item with haccess_c has
\* called hdaccess_c on it by the time it ends.
C19_OpenedHandleClosed ==
    RdhdOpened(last) => \E i \in 3..Len(last.natives) : last.natives[i].fn = "hdaccess_c"

\* ------------------------------------------------------------------ C20
\* The size in bytes of an ndarray's data.
PyArray_NBYTES(a) == PyArray_SIZE(a) * PyArray_ITEMSIZE(a)

\* The hio_c calls of invocation c stay inside the buffer the caller passed.
HioInsideBuffer(c) ==
    c.w.name \in HioWrapperNames =>
        \A i \in 1..Len(c.natives) :
            c.natives[i].fn = "hio_c" => c.natives[i].a2 <= PyArray_NBYTES(c.a.arrs[1])

\* C20: the byte count that hio_generic, hread* and hwrite* hand to hio_c
\* never exceeds the size in bytes of the caller's buffer.
C20_TransferWithinBuffer ==
    /\ HioInsideBuffer(last)
    /\ \A i \in 1..Len(frames) : HioInsideBuffer(frames[i])

====
